---- MODULE Spec2Model ----
(***************************************************************************)
(* State-machine model of ripe-country-stat (src/index.js): the country    *)
(* ASN list fetch, the RIPEstat message classifier, the per-ASN DNS name   *)
(* and prefix-count lookups, the final sort and the CSV write.             *)
(*                                                                         *)
(* Strings the program takes apart are sequences of tokens: an ASN is a    *)
(* sequence of decimal digits, a routed/non_routed field is a sequence of  *)
(* the tokens "{", "AsnSingle(", digits, ")", ",", " ", "}" and "set()",   *)
(* a TXT payload is a sequence of characters and whole words, with " | "  *)
(* as one token.                                                           *)
(* Every await of the program is one state of pc; one action is the whole  *)
(* continuation that runs from one await to the next.                      *)
(***************************************************************************)
EXTENDS Integers, Sequences, FiniteSets, TLC

\* Largest number of ASN entries in one routed / non_routed field.
MaxASNs == 2
\* Largest number of diagnostic messages in one RIPEstat response.
MaxMsgs == 2

SeqsUpTo(S, n) == UNION {[1..k -> S] : k \in 0..n}
Includes(arr, x) == \E k \in 1..Len(arr) : arr[k] = x
Range(arr) == {arr[k] : k \in 1..Len(arr)}

(***************************************************************************)
(* Strings and numbers                                                     *)
(***************************************************************************)
Digits == {"0", "1", "2", "3", "4", "5", "6", "7", "8", "9"}

DigitVal(d) ==
    CASE d = "0" -> 0 [] d = "1" -> 1 [] d = "2" -> 2 [] d = "3" -> 3
      [] d = "4" -> 4 [] d = "5" -> 5 [] d = "6" -> 6 [] d = "7" -> 7
      [] d = "8" -> 8 [] d = "9" -> 9

\* parseInt of a non-empty string of decimal digits (what \d+ captures).
RECURSIVE parseInt(_)
parseInt(s) ==
    IF Len(s) = 0 THEN 0
    ELSE 10 * parseInt(SubSeq(s, 1, Len(s) - 1)) + DigitVal(s[Len(s)])

\* String comparison by code units, as Array.prototype.sort() without a
\* comparator orders strings.
RECURSIVE LexLess(_, _)
LexLess(a, b) ==
    IF Len(b) = 0 THEN FALSE
    ELSE IF Len(a) = 0 THEN TRUE
    ELSE IF a[1] # b[1] THEN DigitVal(a[1]) < DigitVal(b[1])
    ELSE LexLess(Tail(a), Tail(b))

toUpperCaseChar(c) ==
    CASE c = "t" -> "T" [] c = "r" -> "R" [] c = "d" -> "D" [] c = "e" -> "E"
      [] OTHER -> c

toUpperCase(s) == [k \in 1..Len(s) |-> toUpperCaseChar(s[k])]

toLowerCase(s) ==
    CASE s = "Error" -> "error"
      [] OTHER -> s

(***************************************************************************)
(* Array.prototype.sort(compare): a stable sort.  Compare(cmp, a, b) is    *)
(* compare(a, b) < 0 for the comparator named cmp.                         *)
(***************************************************************************)
Compare(cmp, a, b) ==
    CASE cmp = "asn" -> parseInt(a) - parseInt(b) < 0
      [] cmp = "record" -> parseInt(a.asn) - parseInt(b.asn) < 0
      [] cmp = "recordDefault" -> LexLess(a.asn, b.asn)

RECURSIVE InsertSorted(_, _, _)
InsertSorted(x, sorted, cmp) ==
    IF Len(sorted) = 0 THEN <<x>>
    ELSE IF Compare(cmp, x, Head(sorted)) THEN <<x>> \o sorted
    ELSE <<Head(sorted)>> \o InsertSorted(x, Tail(sorted), cmp)

RECURSIVE SortFrom(_, _, _, _)
SortFrom(arr, k, acc, cmp) ==
    IF k > Len(arr) THEN acc
    ELSE SortFrom(arr, k + 1, InsertSorted(arr[k], acc, cmp), cmp)

StableSort(arr, cmp) == SortFrom(arr, 1, <<>>, cmp)

\* The mutant of SortASNs: the sort left out.
SortASNsOmitted(arr) == arr

\* .sort((a, b) => (parseInt(a) - parseInt(b))) on an array of ASN strings.
SortASNs(arr) == StableSort(arr, "asn")

\* The mutant of SortRecords: .sort() on the strings, without the comparator.
SortRecordsLexicographic(arr) == StableSort(arr, "recordDefault")

\* finalArr.sort((a, b) => (parseInt(a.asn) - parseInt(b.asn))).
SortRecords(arr) == StableSort(arr, "record")

(***************************************************************************)
(* COUNTRY_ASNS_REGEX and getRegexGroupFromIndex                           *)
(***************************************************************************)
\* The first index at or after j that holds no digit: the end of \d+.
RECURSIVE DigitRunEnd(_, _)
DigitRunEnd(str, j) ==
    IF j <= Len(str) /\ str[j] \in Digits THEN DigitRunEnd(str, j + 1) ELSE j

\* Group 2 of every match of /{?(AsnSingle\()(\d+)(\),? ?)}?/g from index i on.
RECURSIVE MatchAllFrom(_, _)
MatchAllFrom(str, i) ==
    IF i > Len(str) THEN <<>>
    ELSE IF str[i] = "AsnSingle("
    THEN LET j == DigitRunEnd(str, i + 1) IN
         IF j > i + 1 /\ j <= Len(str) /\ str[j] = ")"
         THEN LET k1 == IF j + 1 <= Len(str) /\ str[j + 1] = "," THEN j + 2 ELSE j + 1
                  k2 == IF k1 <= Len(str) /\ str[k1] = " " THEN k1 + 1 ELSE k1
                  k3 == IF k2 <= Len(str) /\ str[k2] = "}" THEN k2 + 1 ELSE k2
              IN  <<SubSeq(str, i + 1, j - 1)>> \o MatchAllFrom(str, k3)
         ELSE MatchAllFrom(str, i + 1)
    ELSE MatchAllFrom(str, i + 1)

getRegexGroupFromIndex(str) == MatchAllFrom(str, 1)

(***************************************************************************)
(* The country-asns response                                               *)
(***************************************************************************)
AsnTokens == {<<"9">>, <<"1", "0">>}

AsnSingle(a) == <<"AsnSingle(">> \o a \o <<")">>

RECURSIVE JoinAsnSingle(_)
JoinAsnSingle(asns) ==
    IF Len(asns) = 1 THEN AsnSingle(asns[1])
    ELSE AsnSingle(asns[1]) \o <<",", " ">> \o JoinAsnSingle(Tail(asns))

\* "{AsnSingle(701), AsnSingle(702)}"
SetLiteral(asns) == <<"{">> \o JoinAsnSingle(asns) \o <<"}">>

FieldMissing == [present |-> FALSE, text |-> <<>>]
FieldOf(text) == [present |-> TRUE, text |-> text]

\* The values of a routed / non_routed field: absent, "", "set()", a set
\* literal of up to MaxASNs entries, and a literal cut off before its ")".
FieldValues ==
    {FieldMissing, FieldOf(<<>>), FieldOf(<<"set()">>),
     FieldOf(<<"{", "AsnSingle(", "9", "}">>)}
    \cup {FieldOf(SetLiteral(s)) : s \in SeqsUpTo(AsnTokens, MaxASNs) \ {<<>>}}

\* The mutant of AllASNsOf: allASNs with every ASN kept once.
RECURSIVE Deduplicated(_)
Deduplicated(arr) ==
    IF Len(arr) = 0 THEN <<>>
    ELSE LET rest == Deduplicated(SubSeq(arr, 1, Len(arr) - 1)) IN
         IF Includes(rest, arr[Len(arr)]) THEN rest
         ELSE Append(rest, arr[Len(arr)])

AllASNsDeduplicated(act, inact) == Deduplicated(SortASNs(act \o inact))

\* activeASNs.concat(inactiveASNs).sort(...)
AllASNsOf(act, inact) == SortASNs(act \o inact)

\* The mutant of NoASNsFound: the check left out.
NoASNsFoundNever(all) == FALSE

\* countryASNs.allASNs.length === 0
NoASNsFound(all) == Len(all) = 0

\* The ternary of activeASNs / inactiveASNs before the sort.
ExtractASNs(field) ==
    IF field.present /\ field.text # <<>>
       /\ (field.text # <<>> \/ field.text # <<"set()">>)
    THEN getRegexGroupFromIndex(field.text)
    ELSE <<>>

(***************************************************************************)
(* processRIPEmessages                                                     *)
(***************************************************************************)
\* [severity, text] pairs: two notices of one text under two severities, and
\* two errors of different texts, one of them capitalised.
Messages == {<<"info", "m1">>, <<"warning", "m1">>,
             <<"error", "m1">>, <<"Error", "m2">>}
MessageLists == SeqsUpTo(Messages, MaxMsgs)

\* The mutant of IsErrorSeverity: the comparison without toLowerCase.
IsErrorSeverityCaseSensitive(severity) == severity = "error"

\* case "error" of switch (messageArray[0].toLowerCase()).
IsErrorSeverity(severity) == toLowerCase(severity) = "error"

\* The line console.log prints: the tag, the caller and the text.
MessageLine(messageArray, caller) ==
    [tag    |-> IF toLowerCase(messageArray[1]) = "info" THEN "info"
                ELSE messageArray[1],
     caller |-> caller,
     text   |-> messageArray[2]]

\* The mutant of ShouldPrint: the printedMessages test left out.
ShouldPrintAlways(printed, msg, ignoreMsg) == ~ignoreMsg

\* !printedMessages.includes(msg) && !ignoreMsg
ShouldPrint(printed, msg, ignoreMsg) == ~Includes(printed, msg) /\ ~ignoreMsg

\* The loop over bigArr: the printedMessages array and the console output it
\* leaves, and the ripeStatError it throws, if any.
RECURSIVE processRIPEmessages(_, _, _, _, _)
processRIPEmessages(bigArr, ignoreMsg, caller, printed, out) ==
    IF Len(bigArr) = 0
    THEN [printedMessages |-> printed, console |-> out,
          thrown |-> FALSE, message |-> ""]
    ELSE LET messageArray == Head(bigArr) IN
         IF IsErrorSeverity(messageArray[1])
         THEN [printedMessages |-> printed, console |-> out,
               thrown |-> TRUE, message |-> messageArray[2]]
         ELSE LET msg == MessageLine(messageArray, caller)
                  p == ShouldPrint(printed, msg, ignoreMsg)
              IN  processRIPEmessages(Tail(bigArr), ignoreMsg, caller,
                                      IF p THEN Append(printed, msg) ELSE printed,
                                      IF p THEN Append(out, msg) ELSE out)

(***************************************************************************)
(* getASNnameOverDNS                                                       *)
(***************************************************************************)
IsSpace(c) == c = " "

RECURSIVE StripStart(_)
StripStart(str) ==
    IF Len(str) > 0 /\ IsSpace(Head(str)) THEN StripStart(Tail(str)) ELSE str

RECURSIVE StripEnd(_)
StripEnd(str) ==
    IF Len(str) > 0 /\ IsSpace(str[Len(str)])
    THEN StripEnd(SubSeq(str, 1, Len(str) - 1)) ELSE str

strStrip(str) == StripEnd(StripStart(str))

\* .replace(/( \| )/g, "--||--").split("--||--"): the fields between " | ".
RECURSIVE SplitPipe(_, _)
SplitPipe(str, field) ==
    IF Len(str) = 0 THEN <<field>>
    ELSE IF Head(str) = " | " THEN <<field>> \o SplitPipe(Tail(str), <<>>)
    ELSE SplitPipe(Tail(str), Append(field, Head(str)))

\* .slice(0, -4)
SliceOffLast4(str) == SubSeq(str, 1, Len(str) - 4)

\* " 9 | TR | ripencc | 1993-09-01 | TTNET, TR" and a record of three fields.
TxtReplies ==
    {<<" ", "9", " | ", "T", "R", " | ", "ripencc", " | ", "1993-09-01", " | ",
       "T", "T", "N", "E", "T", ",", " ", "T", "R">>,
     <<"9", " | ", "T", "R", " | ", "ripencc">>}

infoArrayOf(reply) == SplitPipe(strStrip(reply), <<>>)

\* infoArray[4].slice(0, -4); infoArray[4] is undefined in a record of fewer
\* than five fields and .slice then throws a TypeError.
HasNameField(reply) == Len(infoArrayOf(reply)) >= 5
getASNnameOverDNS(reply) == SliceOffLast4(infoArrayOf(reply)[5])

(***************************************************************************)
(* getOriginatedPrefixCount, the records and createCSV                     *)
(***************************************************************************)
\* data.data.counts.v4.originating and data.data.counts.v6.originating
PrefixCounts == {[prefixCount4 |-> 0, prefixCount6 |-> 0],
                 [prefixCount4 |-> 2, prefixCount6 |-> 1]}

\* The mutant of InactiveRecord: the inactive loop looking the counts up too.
InactiveRecordWithCounts(asn, org) ==
    [asn |-> asn, asnOrg |-> org, prefixCount4 |-> 2, prefixCount6 |-> 1]

ActiveRecord(asn, org, prefixes) ==
    [asn |-> asn, asnOrg |-> org,
     prefixCount4 |-> prefixes.prefixCount4, prefixCount6 |-> prefixes.prefixCount6]

InactiveRecord(asn, org) ==
    [asn |-> asn, asnOrg |-> org, prefixCount4 |-> 0, prefixCount6 |-> 0]

CsvHeader == <<"AS Number", "Organization Name",
               "Announced IPv4 Prefix Count", "Announced IPv6 Prefix Count">>

\* The data rows: one row of four columns per record, in the order of the
\* array; the header row is CsvHeader.
createCSV(asnObjectArray) ==
    [k \in 1..Len(asnObjectArray) |->
        <<asnObjectArray[k].asn, asnObjectArray[k].asnOrg,
          asnObjectArray[k].prefixCount4, asnObjectArray[k].prefixCount6>>]

(***************************************************************************)
(* Errors and requests                                                     *)
(***************************************************************************)
NoError == [type |-> "none", message |-> ""]
ripeStatError(errmessage) == [type |-> "ripeStatError", message |-> errmessage]
\* A rejected fetch or raw.json() (FetchError), a rejected resolveTxt, a
\* TypeError on a missing property, a failed writeFileSync.
FetchError == [type |-> "system", message |-> "fetch failed"]
DnsError == [type |-> "none", message |-> "queryTxt ENOTFOUND"]
TypeError == [type |-> "none", message |-> "Cannot read property of undefined"]
WriteError == [type |-> "none", message |-> "EACCES"]

Request(kind, resource) == [kind |-> kind, resource |-> resource]

\* The texts of the error-severity messages of a response, in their order.
ErrorSpellings == {"error", "Error"}
RECURSIVE ErrorTexts(_)
ErrorTexts(msgs) ==
    IF Len(msgs) = 0 THEN <<>>
    ELSE (IF Head(msgs)[1] \in ErrorSpellings THEN <<Head(msgs)[2]>> ELSE <<>>)
         \o ErrorTexts(Tail(msgs))

CountryCodes == {<<"t", "r">>}

(***************************************************************************)
(* State                                                                   *)
(***************************************************************************)
VARIABLES
    pc,               \* "prompt", "awaitCountry", "awaitDNS", "awaitPrefix",
                      \* "exiting" (the exit timer runs), "exited"
    countryCode,      \* the code the prompt returned
    data,             \* routed / non_routed of the country-asns response
    lastErrors,       \* texts of the error messages of the last response
    fieldsRead,       \* the data fields of the last response were read
    printedMessages,  \* the module-level array
    console,          \* the lines processRIPEmessages printed
    stderr,           \* what the exit functions printed
    activeASNs, inactiveASNs, allASNs,
    finalArr,
    loop, idx,        \* the loop that runs and the index of its ASN
    asnOrg,           \* the name of the ASN whose prefix counts are awaited
    outstanding,      \* requests sent and not answered
    requests,         \* every request sent, in order
    isProgressStarted, progressActive, progressValue,
    csvFile,          \* the file written by writeFileSync
    exitVia, exitTimer, exitCode,
    err,              \* the error the catch block caught
    lastCaller,       \* the caller of the last processRIPEmessages call
    nCalls,           \* the processRIPEmessages calls made one by one
    submitted         \* the notices those calls were given to print

vars == <<pc, countryCode, data, lastErrors, fieldsRead, printedMessages,
          console, stderr, activeASNs, inactiveASNs, allASNs, finalArr, loop,
          idx, asnOrg, outstanding, requests, isProgressStarted,
          progressActive, progressValue, csvFile, exitVia, exitTimer,
          exitCode, err, lastCaller, nCalls, submitted>>

\* The variables only ClassifierCall changes.
callVars == <<lastCaller, nCalls, submitted>>

NoFile == [written |-> FALSE, name |-> <<>>, header |-> <<>>, rows |-> <<>>]
\* No exit timer set, no exit code yet; a code c is <<c>>.
NoCode == <<>>

Init ==
    /\ pc = "prompt"
    /\ countryCode = <<>>
    /\ data = [routed |-> FieldMissing, non_routed |-> FieldMissing]
    /\ lastErrors = <<>>
    /\ fieldsRead = FALSE
    /\ printedMessages = <<>>
    /\ console = <<>>
    /\ stderr = <<>>
    /\ activeASNs = <<>>
    /\ inactiveASNs = <<>>
    /\ allASNs = <<>>
    /\ finalArr = <<>>
    /\ loop = "none"
    /\ idx = 0
    /\ asnOrg = <<>>
    /\ outstanding = {}
    /\ requests = <<>>
    /\ isProgressStarted = FALSE
    /\ progressActive = FALSE
    /\ progressValue = 0
    /\ csvFile = NoFile
    /\ exitVia = "none"
    /\ exitTimer = NoCode
    /\ exitCode = NoCode
    /\ err = NoError
    /\ lastCaller = "none"
    /\ nCalls = 0
    /\ submitted = 0

(***************************************************************************)
(* The ends of a continuation                                              *)
(***************************************************************************)
\* The mutant of Await: the request is sent while the one before it is still
\* unanswered.
AwaitNotCompleted(next, req) ==
    /\ pc' = next
    /\ outstanding' = outstanding \cup {req}
    /\ requests' = Append(requests, req)

\* await of a request: the awaited one before it has completed, the request
\* is sent and the continuation is suspended.
Await(next, req) ==
    /\ pc' = next
    /\ outstanding' = {req}
    /\ requests' = Append(requests, req)

\* The mutant of ExitCodeOf: every caught error ends the process with 1.
ExitCodeAlwaysOne(e) == 1

\* process.exit(0) of exitWithRIPEerror, process.exit(1) of exitWithError.
ExitCodeOf(e) == IF e.type = "ripeStatError" THEN 0 ELSE 1

\* The mutant of Catch: the records gathered so far are written out.
CatchWritingPartial(e) ==
    /\ pc' = "exiting"
    /\ outstanding' = {}
    /\ requests' = requests
    /\ err' = e
    /\ progressActive' = FALSE
    /\ stderr' = Append(stderr, e.message)
    /\ exitVia' = IF e.type = "ripeStatError" THEN "exitWithRIPEerror"
                  ELSE "exitWithError"
    /\ exitTimer' = <<ExitCodeOf(e)>>
    /\ csvFile' = [written |-> TRUE,
                   name |-> toUpperCase(countryCode) \o <<".csv">>,
                   header |-> CsvHeader,
                   rows |-> createCSV(finalArr)]

\* The catch block: progress.stop(), then exitWithRIPEerror or exitWithError,
\* which print to standard error and start the exit timer.
Catch(e) ==
    /\ pc' = "exiting"
    /\ outstanding' = {}
    /\ requests' = requests
    /\ err' = e
    /\ progressActive' = FALSE
    /\ stderr' = Append(stderr, e.message)
    /\ exitVia' = IF e.type = "ripeStatError" THEN "exitWithRIPEerror"
                  ELSE "exitWithError"
    /\ exitTimer' = <<ExitCodeOf(e)>>
    /\ csvFile' = csvFile

\* exit(): the timer of process.exit(0).
Exit ==
    /\ pc' = "exiting"
    /\ outstanding' = {}
    /\ requests' = requests
    /\ err' = err
    /\ stderr' = stderr
    /\ exitVia' = "exit"
    /\ exitTimer' = <<0>>

\* After the loops: progress.stop(), the sort, writeFileSync and exit(); a
\* writeFileSync that throws is caught like any other error.
Finish(arr) ==
    /\ finalArr' = SortRecords(arr)
    /\ UNCHANGED <<loop, idx>>
    /\ \/ /\ csvFile' = [written |-> TRUE,
                         name |-> toUpperCase(countryCode) \o <<".csv">>,
                         header |-> CsvHeader,
                         rows |-> createCSV(SortRecords(arr))]
          /\ progressActive' = FALSE
          /\ Exit
       \/ Catch(WriteError)

\* The head of the next iteration after k ASNs of loop lp: the name lookup of
\* the next ASN of the active loop, then of the inactive loop, or the end.
NextIteration(arr, lp, k, act, inact) ==
    IF lp = "active" /\ k < Len(act)
    THEN /\ finalArr' = arr /\ loop' = "active" /\ idx' = k + 1
         /\ Await("awaitDNS", Request("dns", act[k + 1]))
         /\ UNCHANGED <<err, stderr, exitVia, exitTimer, csvFile>>
         /\ progressActive' = TRUE
    ELSE IF lp = "active" /\ Len(inact) > 0
    THEN /\ finalArr' = arr /\ loop' = "inactive" /\ idx' = 1
         /\ Await("awaitDNS", Request("dns", inact[1]))
         /\ UNCHANGED <<err, stderr, exitVia, exitTimer, csvFile>>
         /\ progressActive' = TRUE
    ELSE IF lp = "inactive" /\ k < Len(inact)
    THEN /\ finalArr' = arr /\ loop' = "inactive" /\ idx' = k + 1
         /\ Await("awaitDNS", Request("dns", inact[k + 1]))
         /\ UNCHANGED <<err, stderr, exitVia, exitTimer, csvFile>>
         /\ progressActive' = TRUE
    ELSE Finish(arr)

(***************************************************************************)
(* The continuations of program.action                                     *)
(***************************************************************************)
\* The prompts, then getCountryASNs up to its fetch.  A prompt that rejects
\* is caught like any other error.
SelectCountry ==
    /\ pc = "prompt"
    /\ \/ \E cc \in CountryCodes :
            /\ countryCode' = cc
            /\ Await("awaitCountry", Request("country", toUpperCase(cc)))
            /\ UNCHANGED <<err, progressActive, stderr, exitVia, exitTimer, csvFile>>
       \/ /\ Catch(TypeError)
          /\ UNCHANGED countryCode
    /\ UNCHANGED <<data, lastErrors, fieldsRead, printedMessages, console,
                   activeASNs, inactiveASNs, allASNs, finalArr, loop, idx,
                   asnOrg, isProgressStarted, progressValue, exitCode>>
    /\ UNCHANGED callVars

\* The fetch or raw.json() of getCountryASNs rejects.
CountryFetchFails ==
    /\ pc = "awaitCountry"
    /\ Catch(FetchError)
    /\ lastErrors' = <<>>
    /\ fieldsRead' = FALSE
    /\ UNCHANGED <<countryCode, data, printedMessages, console, activeASNs,
                   inactiveASNs, allASNs, finalArr, loop, idx, asnOrg,
                   isProgressStarted, progressValue, exitCode>>
    /\ UNCHANGED callVars

\* The rest of getCountryASNs and program.action up to the first name lookup:
\* the messages, the three lists, the zero-ASN return, progress.start.
CountryReply ==
    /\ pc = "awaitCountry"
    /\ \E msgs \in MessageLists, r \in FieldValues, n \in FieldValues :
        LET res == processRIPEmessages(msgs, FALSE, "getCountryASNs",
                                       printedMessages, console)
            act == SortASNs(ExtractASNs(r))
            inact == SortASNs(ExtractASNs(n))
            all == AllASNsOf(act, inact)
        IN  /\ data' = [routed |-> r, non_routed |-> n]
            /\ lastErrors' = ErrorTexts(msgs)
            /\ printedMessages' = res.printedMessages
            /\ console' = res.console
            /\ IF res.thrown
               THEN /\ Catch(ripeStatError(res.message))
                    /\ fieldsRead' = FALSE
                    /\ UNCHANGED <<activeASNs, inactiveASNs, allASNs, finalArr,
                                   loop, idx, isProgressStarted, progressValue>>
               ELSE /\ fieldsRead' = TRUE
                    /\ activeASNs' = act
                    /\ inactiveASNs' = inact
                    /\ allASNs' = all
                    /\ IF NoASNsFound(all)
                       THEN /\ Exit
                            /\ UNCHANGED <<finalArr, loop, idx, isProgressStarted,
                                           progressActive, progressValue, csvFile>>
                       ELSE /\ isProgressStarted' = TRUE
                            /\ progressValue' = 0
                            /\ NextIteration(<<>>, "active", 0, act, inact)
    /\ UNCHANGED <<countryCode, asnOrg, exitCode>>
    /\ UNCHANGED callVars

\* The ASN whose lookups are under way.
CurrentASN == IF loop = "active" THEN activeASNs[idx] ELSE inactiveASNs[idx]

\* resolveTxt rejects, or answers with no record.
DnsFails ==
    /\ pc = "awaitDNS"
    /\ Catch(DnsError)
    /\ UNCHANGED <<countryCode, data, lastErrors, fieldsRead, printedMessages,
                   console, activeASNs, inactiveASNs, allASNs, finalArr, loop,
                   idx, asnOrg, isProgressStarted, progressValue, exitCode>>
    /\ UNCHANGED callVars

\* The rest of getASNnameOverDNS; then, in the active loop, the fetch of
\* getOriginatedPrefixCount, and in the inactive loop the push of the record,
\* progress.increment and the next iteration.
DnsReply ==
    /\ pc = "awaitDNS"
    /\ \E reply \in TxtReplies :
        IF ~HasNameField(reply)
        THEN /\ Catch(TypeError)
             /\ UNCHANGED <<finalArr, loop, idx, asnOrg, progressValue>>
        ELSE IF loop = "active"
        THEN /\ asnOrg' = getASNnameOverDNS(reply)
             /\ Await("awaitPrefix", Request("prefix", CurrentASN))
             /\ UNCHANGED <<finalArr, loop, idx, progressValue, err,
                            progressActive, stderr, exitVia, exitTimer, csvFile>>
        ELSE /\ asnOrg' = asnOrg
             /\ progressValue' = progressValue + 1
             /\ NextIteration(
                    Append(finalArr,
                           InactiveRecord(CurrentASN, getASNnameOverDNS(reply))),
                    "inactive", idx, activeASNs, inactiveASNs)
    /\ UNCHANGED <<countryCode, data, lastErrors, fieldsRead, printedMessages,
                   console, activeASNs, inactiveASNs, allASNs,
                   isProgressStarted, exitCode>>
    /\ UNCHANGED callVars

\* The fetch or raw.json() of getOriginatedPrefixCount rejects.
PrefixFetchFails ==
    /\ pc = "awaitPrefix"
    /\ Catch(FetchError)
    /\ lastErrors' = <<>>
    /\ fieldsRead' = FALSE
    /\ UNCHANGED <<countryCode, data, printedMessages, console, activeASNs,
                   inactiveASNs, allASNs, finalArr, loop, idx, asnOrg,
                   isProgressStarted, progressValue, exitCode>>
    /\ UNCHANGED callVars

\* The rest of getOriginatedPrefixCount (the messages, with ignoreMsg true),
\* the push of the record, progress.increment and the next iteration.
PrefixReply ==
    /\ pc = "awaitPrefix"
    /\ \E msgs \in MessageLists, prefixes \in PrefixCounts :
        LET res == processRIPEmessages(msgs, TRUE, "getOriginatedPrefixCount",
                                       printedMessages, console)
        IN  /\ lastErrors' = ErrorTexts(msgs)
            /\ printedMessages' = res.printedMessages
            /\ console' = res.console
            /\ IF res.thrown
               THEN /\ Catch(ripeStatError(res.message))
                    /\ fieldsRead' = FALSE
                    /\ UNCHANGED <<finalArr, loop, idx, progressValue>>
               ELSE /\ fieldsRead' = TRUE
                    /\ progressValue' = progressValue + 1
                    /\ NextIteration(
                           Append(finalArr,
                                  ActiveRecord(CurrentASN, asnOrg, prefixes)),
                           "active", idx, activeASNs, inactiveASNs)
    /\ UNCHANGED <<countryCode, data, activeASNs, inactiveASNs, allASNs,
                   asnOrg, isProgressStarted, exitCode>>
    /\ UNCHANGED callVars

\* The timer of exit, exitWithError or exitWithRIPEerror fires: process.exit.
ProcessExit ==
    /\ pc = "exiting"
    /\ pc' = "exited"
    /\ exitCode' = exitTimer
    /\ UNCHANGED <<countryCode, data, lastErrors, fieldsRead, printedMessages,
                   console, stderr, activeASNs, inactiveASNs, allASNs,
                   finalArr, loop, idx, asnOrg, outstanding, requests,
                   isProgressStarted, progressActive, progressValue, csvFile,
                   exitVia, exitTimer, err>>
    /\ UNCHANGED callVars

(***************************************************************************)
(* processRIPEmessages called on its own: any of its three callers, with   *)
(* the ignoreMsg each of them passes, on any message list, call after call *)
(* in one process.  A call that throws ends the process.                   *)
(***************************************************************************)
\* Largest number of calls made one by one.
MaxCalls == 3

Callers == {"getASNname", "getOriginatedPrefixCount", "getCountryASNs"}

\* processRIPEmessages(data.messages) in getASNname and getCountryASNs,
\* processRIPEmessages(data.messages, true) in getOriginatedPrefixCount.
IgnoreMsgOf(caller) == caller = "getOriginatedPrefixCount"

\* The messages of a list that come before its first error message.
RECURSIVE NoticesOf(_)
NoticesOf(msgs) ==
    IF Len(msgs) = 0 \/ Head(msgs)[1] \in ErrorSpellings THEN <<>>
    ELSE <<Head(msgs)>> \o NoticesOf(Tail(msgs))

ClassifierCall ==
    /\ pc = "prompt"
    /\ err = NoError
    /\ nCalls < MaxCalls
    /\ \E caller \in Callers, bigArr \in MessageLists :
        LET res == processRIPEmessages(bigArr, IgnoreMsgOf(caller), caller,
                                       printedMessages, console)
        IN  /\ printedMessages' = res.printedMessages
            /\ console' = res.console
            /\ err' = IF res.thrown THEN ripeStatError(res.message) ELSE NoError
            /\ lastErrors' = ErrorTexts(bigArr)
            /\ lastCaller' = caller
            /\ nCalls' = nCalls + 1
            /\ submitted' = IF IgnoreMsgOf(caller) THEN submitted
                            ELSE submitted + Len(NoticesOf(bigArr))
    /\ UNCHANGED <<pc, countryCode, data, fieldsRead, stderr, activeASNs,
                   inactiveASNs, allASNs, finalArr, loop, idx, asnOrg,
                   outstanding, requests, isProgressStarted, progressActive,
                   progressValue, csvFile, exitVia, exitTimer, exitCode>>

NextClassifier == ClassifierCall

SpecClassifier == Init /\ [][NextClassifier]_vars

Next ==
    \/ SelectCountry
    \/ CountryFetchFails
    \/ CountryReply
    \/ DnsFails
    \/ DnsReply
    \/ PrefixFetchFails
    \/ PrefixReply
    \/ ProcessExit

Spec == Init /\ [][Next]_vars

(***************************************************************************)
(* Vocabulary of the properties                                            *)
(***************************************************************************)
IsAscending(arr) ==
    \A k \in 1..(Len(arr) - 1) : parseInt(arr[k]) <= parseInt(arr[k + 1])

IsStrictlyAscending(arr) ==
    \A k \in 1..(Len(arr) - 1) : parseInt(arr[k]) < parseInt(arr[k + 1])

NoDuplicates(arr) ==
    \A j, k \in 1..Len(arr) : j # k => arr[j] # arr[k]

\* No two entries of the same numeric value.
NumericallyDistinct(arr) ==
    \A j, k \in 1..Len(arr) : j # k => parseInt(arr[j]) # parseInt(arr[k])

Count(arr, x) == Cardinality({k \in 1..Len(arr) : arr[k] = x})

IsPermutation(a, b) ==
    /\ Len(a) = Len(b)
    /\ \A x \in Range(a) \cup Range(b) : Count(a, x) = Count(b, x)

RemoveAt(arr, k) == SubSeq(arr, 1, k - 1) \o SubSeq(arr, k + 1, Len(arr))

\* The merge of two ascending lists, the first list first among equals.
RECURSIVE Merge(_, _)
Merge(a, b) ==
    IF Len(a) = 0 THEN b
    ELSE IF Len(b) = 0 THEN a
    ELSE IF parseInt(Head(b)) < parseInt(Head(a))
    THEN <<Head(b)>> \o Merge(a, Tail(b))
    ELSE <<Head(a)>> \o Merge(Tail(a), b)

AsnsOf(records) == [k \in 1..Len(records) |-> records[k].asn]
AsnColumn(rows) == [k \in 1..Len(rows) |-> rows[k][1]]
ResourcesOf(reqs) == [k \in 1..Len(reqs) |-> reqs[k].resource]

IsDns(r) == r.kind = "dns"
IsPrefix(r) == r.kind = "prefix"
DnsRequests == SelectSeq(requests, IsDns)
PrefixRequests == SelectSeq(requests, IsPrefix)

HasZeroCounts(record) == record.prefixCount4 = 0 /\ record.prefixCount6 = 0

\* getCountryASNs has returned its three lists.
CountryParsed ==
    /\ pc \notin {"prompt", "awaitCountry"}
    /\ ~(loop = "none" /\ err # NoError)

\* The loops are over and finalArr is sorted.
Finished == csvFile.written \/ err = WriteError

Ended == pc \in {"exiting", "exited"}

IsEmptyField(field) ==
    ~field.present \/ field.text = <<>> \/ field.text = <<"set()">>

\* The entries a field was written from, <<>> when it is no set literal.
EntriesOf(field) ==
    LET S == {s \in SeqsUpTo(AsnTokens, MaxASNs) \ {<<>>} :
                 field = FieldOf(SetLiteral(s))}
    IN  IF S = {} THEN <<>> ELSE CHOOSE s \in S : TRUE

\* The requests of a whole run, in the order the loops send them.
RECURSIVE ActiveRequests(_)
ActiveRequests(act) ==
    IF Len(act) = 0 THEN <<>>
    ELSE <<Request("dns", Head(act)), Request("prefix", Head(act))>>
         \o ActiveRequests(Tail(act))

InactiveRequests(inact) == [k \in 1..Len(inact) |-> Request("dns", inact[k])]

ExpectedRequests ==
    <<Request("country", toUpperCase(countryCode))>>
    \o ActiveRequests(activeASNs) \o InactiveRequests(inactiveASNs)

\* The requests behind the first n records.
RequestsBehind(n) ==
    IF n <= Len(activeASNs) THEN 2 * n
    ELSE 2 * Len(activeASNs) + (n - Len(activeASNs))

(***************************************************************************)
(* C1  The first error ends the run.                                       *)
(***************************************************************************)
C1_State ==
    /\ err # NoError => /\ Ended
                        /\ outstanding = {}
                        /\ ~csvFile.written
    /\ csvFile.written =>
          /\ CountryParsed
          /\ err = NoError
          /\ IsPermutation(AsnsOf(finalArr), activeASNs \o inactiveASNs)
    /\ Len(DnsRequests) <= Len(activeASNs) + Len(inactiveASNs)
    /\ ResourcesOf(DnsRequests)
         = SubSeq(activeASNs \o inactiveASNs, 1, Len(DnsRequests))
    /\ Len(PrefixRequests) <= Len(activeASNs)
    /\ ResourcesOf(PrefixRequests) = SubSeq(activeASNs, 1, Len(PrefixRequests))
    /\ Len(requests) <= 1 + Len(DnsRequests) + Len(PrefixRequests)

C1_Step ==
    err # NoError => /\ requests' = requests
                     /\ outstanding' = outstanding
                     /\ csvFile' = csvFile
                     /\ finalArr' = finalArr
                     /\ err' = err

\* C1: wherever an error occurs (the country fetch, the messages, the name
\* lookup of any ASN, the prefix fetch of any active ASN), it ends the run: no
\* request is sent after it, none is sent twice, and no CSV file is written,
\* however many records there are; a CSV file is written only when every
\* entry of activeASNs and inactiveASNs has its record.
C1_FirstErrorEndsRun == [](C1_State) /\ [][C1_Step]_vars

\* An error of the name lookup in the inactive loop, records already gathered.
C1_Witness ==
    /\ pc = "exited"
    /\ err = DnsError
    /\ loop = "inactive"
    /\ Len(finalArr) >= 2
    /\ ~csvFile.written

(***************************************************************************)
(* C2  Exit codes.                                                         *)
(***************************************************************************)
\* C2: the exit code follows from how the run ended: 0 with the CSV written,
\* 0 on "No ASNs found", 0 on a ripeStatError, 1 on any other error (fetch,
\* DNS, a TXT record of fewer than five fields, the file write); the process
\* exits with no other code, and an error is printed to standard error before
\* the process exits.
C2_ExitCodes ==
    /\ exitCode \in {NoCode, <<0>>, <<1>>}
    /\ (exitCode # NoCode) <=> (pc = "exited")
    /\ err # NoError => Len(stderr) = 1
    /\ err = NoError => Len(stderr) = 0
    /\ pc = "exited" =>
          /\ csvFile.written => exitCode = <<0>>
          /\ (~csvFile.written /\ err = NoError) =>
                 CountryParsed /\ Len(allASNs) = 0 /\ exitCode = <<0>>
          /\ err.type = "ripeStatError" => exitCode = <<0>>
          /\ err \in {FetchError, DnsError, TypeError, WriteError} => exitCode = <<1>>
          /\ err.type # "ripeStatError" =>
                 err \in {NoError, FetchError, DnsError, TypeError, WriteError}

\* The process has exited with 0 on a ripeStatError of a prefix-count response.
C2_Witness ==
    /\ pc = "exited"
    /\ err.type = "ripeStatError"
    /\ exitCode = <<0>>
    /\ Len(finalArr) >= 1

(***************************************************************************)
(* C3  Inactive ASNs: zero counts and no prefix-count request.             *)
(***************************************************************************)
\* The active ASNs that have their record.
ActiveRecorded ==
    IF Finished \/ loop = "inactive" THEN Len(activeASNs) ELSE Len(finalArr)

C3_State ==
    /\ Len(PrefixRequests) <= Len(activeASNs)
    /\ ResourcesOf(PrefixRequests) = SubSeq(activeASNs, 1, Len(PrefixRequests))
    /\ Len(PrefixRequests) \in {ActiveRecorded, ActiveRecorded + 1}
    /\ Len(PrefixRequests) = ActiveRecorded + 1 =>
          loop = "active" /\ (pc = "awaitPrefix" \/ err # NoError)
    /\ csvFile.written => Len(PrefixRequests) = Len(activeASNs)
    /\ ~Finished =>
          \A k \in (Len(activeASNs) + 1)..Len(finalArr) :
              /\ finalArr[k].asn = inactiveASNs[k - Len(activeASNs)]
              /\ HasZeroCounts(finalArr[k])
    /\ Finished =>
          /\ \A k \in 1..Len(finalArr) :
                 (\A a \in Range(activeASNs) :
                      parseInt(a) # parseInt(finalArr[k].asn))
                 => HasZeroCounts(finalArr[k])
          /\ Cardinality({k \in 1..Len(finalArr) : HasZeroCounts(finalArr[k])})
               >= Len(inactiveASNs)
    /\ csvFile.written => csvFile.rows = createCSV(finalArr)

C3_Step ==
    (loop = "inactive" \/ loop' = "inactive") => PrefixRequests' = PrefixRequests

\* C3: the record of an ASN of inactiveASNs has prefixCount4 = 0 and
\* prefixCount6 = 0, no prefix-count request is sent while the inactive loop
\* runs, and the prefix-count requests are those of the active ASNs, one for
\* each active ASN that got as far as its prefix-count lookup.
C3_InactiveZeroCounts == [](C3_State) /\ [][C3_Step]_vars

\* A written file with active records of non-zero counts and inactive records.
C3_Witness ==
    /\ csvFile.written
    /\ Len(activeASNs) >= 1
    /\ Len(inactiveASNs) >= 1
    /\ \E k \in 1..Len(finalArr) : finalArr[k].prefixCount4 > 0

(***************************************************************************)
(* C4  An error-severity message aborts the response.                      *)
(***************************************************************************)
C4_State ==
    lastErrors # <<>> =>
        /\ err = ripeStatError(lastErrors[1])
        /\ ~fieldsRead
        /\ Ended
        /\ exitVia = "exitWithRIPEerror"
        /\ outstanding = {}
        /\ requests[Len(requests)].kind = "country" =>
               activeASNs = <<>> /\ inactiveASNs = <<>> /\ allASNs = <<>>

C4_Step ==
    (lastErrors = <<>> /\ lastErrors' # <<>>) =>
        /\ finalArr' = finalArr
        /\ activeASNs' = activeASNs
        /\ inactiveASNs' = inactiveASNs
        /\ allASNs' = allASNs
        /\ progressValue' = progressValue
        /\ requests' = requests

\* C4 as amended: a response whose message list holds a message of severity
\* "error" (in any case of the letters, at any position) is given up and a
\* ripeStatError with the text of the FIRST error message of the list is
\* thrown, before a data field of the response is read; so for the
\* country-asns response and, ignoreMsg or not, for every prefix-count
\* response.
C4_FirstErrorMessageAborts == [](C4_State) /\ [][C4_Step]_vars

\* A prefix-count response (ignoreMsg true) whose first error message is the
\* one of severity "Error".
C4_Witness ==
    /\ lastErrors # <<>>
    /\ lastErrors[1] = "m2"
    /\ requests[Len(requests)].kind = "prefix"
    /\ err = ripeStatError("m2")

\* C4 as claimed: every error message of the list is the one whose text the
\* ripeStatError carries.
C4_Original ==
    \A k \in 1..Len(lastErrors) :
        err = ripeStatError(lastErrors[k]) /\ ~fieldsRead

(***************************************************************************)
(* C5  Notices are printed once.                                           *)
(***************************************************************************)
C5_State ==
    /\ NoDuplicates(console)
    /\ printedMessages = console
    /\ Len(console) <= submitted

C5_Step ==
    lastCaller' = "getOriginatedPrefixCount" =>
        console' = console /\ printedMessages' = printedMessages

\* C5 as amended: over any sequence of processRIPEmessages calls of one
\* process, a line (its severity tag, its caller and its text) is printed at
\* most once; one text under two severities, or from two callers, is printed
\* once for each.  With ignoreMsg true nothing is printed and printedMessages
\* is left as it was.
C5_LinePrintedOnce == [](C5_State) /\ [][C5_Step]_vars

\* Two lines are printed, a third notice was a repeat, and the last call was
\* one with ignoreMsg true.
C5_Witness ==
    /\ Len(console) >= 2
    /\ submitted > Len(console)
    /\ lastCaller = "getOriginatedPrefixCount"
    /\ nCalls >= 2

\* C5 as claimed: no text is printed twice.
C5_Original ==
    \A j, k \in 1..Len(console) : j # k => console[j].text # console[k].text

(***************************************************************************)
(* C6  No ASNs found.                                                      *)
(***************************************************************************)
\* C6: when the allASNs getCountryASNs returns is empty, the run ends with no
\* name or prefix-count request sent, progress not started, no CSV file
\* written and no error, and the process exits with 0.
C6_ZeroASNs ==
    (CountryParsed /\ Len(allASNs) = 0) =>
        /\ Len(requests) = 1
        /\ requests[1].kind = "country"
        /\ outstanding = {}
        /\ ~isProgressStarted
        /\ ~progressActive
        /\ ~csvFile.written
        /\ finalArr = <<>>
        /\ err = NoError
        /\ stderr = <<>>
        /\ Ended
        /\ exitVia = "exit"
        /\ exitTimer = <<0>>
        /\ pc = "exited" => exitCode = <<0>>

\* The process has exited after a response of "set()" and a missing field.
C6_Witness ==
    /\ pc = "exited"
    /\ CountryParsed
    /\ Len(allASNs) = 0
    /\ data.routed = FieldOf(<<"set()">>)
    /\ data.non_routed = FieldMissing
    /\ exitCode = <<0>>

(***************************************************************************)
(* C7  The lists of getCountryASNs.                                        *)
(***************************************************************************)
\* C7 as amended: for every pair of routed and non_routed values,
\* activeASNs and inactiveASNs are the entries of their field in ascending
\* numeric order, an ASN as often as the field gives it (so ascending, and
\* strictly ascending only where no ASN repeats), allASNs is the ascending
\* merge of the two, and a missing, empty or "set()" field gives an empty
\* list.
C7_ListsAscending ==
    CountryParsed =>
        /\ IsAscending(activeASNs)
        /\ IsAscending(inactiveASNs)
        /\ IsPermutation(activeASNs, EntriesOf(data.routed))
        /\ IsPermutation(inactiveASNs, EntriesOf(data.non_routed))
        /\ allASNs = Merge(activeASNs, inactiveASNs)
        /\ IsAscending(allASNs)
        /\ IsEmptyField(data.routed) => activeASNs = <<>>
        /\ IsEmptyField(data.non_routed) => inactiveASNs = <<>>
        /\ NumericallyDistinct(EntriesOf(data.routed))
               => IsStrictlyAscending(activeASNs)
        /\ NumericallyDistinct(EntriesOf(data.non_routed))
               => IsStrictlyAscending(inactiveASNs)

\* A routed field given in descending order, and an empty set.
C7_Witness ==
    /\ CountryParsed
    /\ data.routed = FieldOf(SetLiteral(<<<<"1", "0">>, <<"9">>>>))
    /\ data.non_routed = FieldOf(<<"set()">>)
    /\ activeASNs = <<<<"9">>, <<"1", "0">>>>
    /\ allASNs = activeASNs

\* C7 as claimed: both lists strictly ascending.
C7_Original ==
    CountryParsed =>
        /\ IsStrictlyAscending(activeASNs)
        /\ IsStrictlyAscending(inactiveASNs)
        /\ allASNs = Merge(activeASNs, inactiveASNs)

(***************************************************************************)
(* C8  One request at a time, in order.                                    *)
(***************************************************************************)
\* C8: at most one request is unanswered at any time; the requests are sent
\* in the order name lookup then prefix-count request for each active ASN in
\* ascending order, then the name lookup for each inactive ASN in ascending
\* order; and a request is sent only when every ASN before its own has its
\* record.
C8_Sequential ==
    /\ Cardinality(outstanding) <= 1
    /\ (outstanding # {}) <=> (pc \in {"awaitCountry", "awaitDNS", "awaitPrefix"})
    /\ outstanding # {} => outstanding = {requests[Len(requests)]}
    /\ Len(requests) <= Len(ExpectedRequests)
    /\ requests = SubSeq(ExpectedRequests, 1, Len(requests))
    /\ IsAscending(activeASNs)
    /\ IsAscending(inactiveASNs)
    /\ ~Finished =>
          AsnsOf(finalArr) = SubSeq(activeASNs \o inactiveASNs, 1, Len(finalArr))
    /\ pc = "awaitDNS" =>
          Len(requests) = 1 + RequestsBehind(Len(finalArr)) + 1
    /\ pc = "awaitPrefix" =>
          /\ loop = "active"
          /\ Len(requests) = 1 + RequestsBehind(Len(finalArr)) + 2

\* The name lookup of the second inactive ASN, after two active ASNs.
C8_Witness ==
    /\ pc = "awaitDNS"
    /\ loop = "inactive"
    /\ idx = 2
    /\ Len(activeASNs) = 2
    /\ Len(finalArr) = 3

(***************************************************************************)
(* C9  The records written are in ascending numeric order.                 *)
(***************************************************************************)
C9_State ==
    csvFile.written =>
        /\ IsAscending(AsnsOf(finalArr))
        /\ csvFile.rows = createCSV(finalArr)
        /\ IsAscending(AsnColumn(csvFile.rows))
        /\ Len(csvFile.rows) = Len(activeASNs) + Len(inactiveASNs)

C9_Step ==
    (~Finished /\ Finished') =>
        /\ Len(finalArr') = Len(finalArr) + 1
        /\ \E k \in 1..Len(finalArr') :
               /\ IsPermutation(RemoveAt(finalArr', k), finalArr)
               /\ finalArr'[k].asn
                    = (activeASNs \o inactiveASNs)[Len(finalArr')]

\* C9: the records handed to createCSV are in ascending order of the numeric
\* value of asn, whatever the split into active and inactive ASNs, and the
\* sort changes the order of the records only: the records of the loops, as
\* many and with the same contents.
C9_WrittenAscending == [](C9_State) /\ [][C9_Step]_vars

\* A written file whose inactive ASN 9 is smaller than its active ASN 10.
C9_Witness ==
    /\ csvFile.written
    /\ Len(activeASNs) >= 1
    /\ Len(inactiveASNs) >= 1
    /\ parseInt(inactiveASNs[1]) < parseInt(activeASNs[Len(activeASNs)])

(***************************************************************************)
(* C10  One record for each entry of the lists.                            *)
(***************************************************************************)
C10_State ==
    /\ CountryParsed =>
          /\ IsPermutation(allASNs, activeASNs \o inactiveASNs)
          /\ IsPermutation(allASNs,
                           EntriesOf(data.routed) \o EntriesOf(data.non_routed))
          /\ NumericallyDistinct(EntriesOf(data.routed)
                                 \o EntriesOf(data.non_routed))
                 <=> NumericallyDistinct(allASNs)
    /\ Len(finalArr) <= Len(allASNs)
    /\ csvFile.written =>
          /\ AsnColumn(csvFile.rows) = allASNs
          /\ AsnsOf(finalArr) = allASNs

C10_Step ==
    /\ ~Finished' =>
          /\ Len(finalArr') \in {Len(finalArr), Len(finalArr) + 1}
          /\ SubSeq(finalArr', 1, Len(finalArr)) = finalArr
    /\ Finished => finalArr' = finalArr

\* C10 as amended: allASNs holds every entry of the two fields, an ASN as
\* often as the response gives it, so that no ASN occurs twice in allASNs
\* exactly when the response gives none twice; one record is made for each
\* entry of activeASNs and inactiveASNs, the written CSV has one data row for
\* each entry of allASNs, and a record, once pushed, is not changed.
C10_OneRecordPerEntry == [](C10_State) /\ [][C10_Step]_vars

\* A written file with two rows for ASN 9, routed and non-routed at once.
C10_Witness ==
    /\ csvFile.written
    /\ activeASNs = <<<<"9">>>>
    /\ inactiveASNs = <<<<"9">>>>
    /\ Len(csvFile.rows) = 2

\* C10 as claimed: no ASN occurs twice in allASNs.
C10_Original == CountryParsed => NumericallyDistinct(allASNs)

====
